---- MODULE Spec2Model ----
(***************************************************************************)
(* Model of examples/spirits/game-of-life/web/serve.py: a static file      *)
(* server (socketserver.TCPServer + SimpleHTTPRequestHandler subclass)     *)
(* whose extension-to-MIME table is the handler's default table overlaid   *)
(* with three entries.                                                     *)
(*                                                                         *)
(* The script is straight-line module code; pc names the statement the     *)
(* interpreter is about to execute.  The environment (the platform default *)
(* table, whether the port is free, the clients, the operator's interrupt) *)
(* is chosen nondeterministically.                                         *)
(***************************************************************************)
EXTENDS Naturals, Sequences, FiniteSets

VARIABLES
    pc,              \* statement about to run: classdef, print1, print2, bind,
                     \* bound, serving, except, closing, exited
    defaults,        \* http.server.SimpleHTTPRequestHandler.extensions_map (platform)
    extensions_map,  \* WasmHandler.extensions_map; empty before the class body ran
    stdout,          \* sequence of strings written by print(), one entry per call
    stderr,          \* sequence of tags of what the runtime wrote to standard error
    listening,       \* <<>>, or <<port>> while the listening socket is bound
    entered,         \* serve_forever() has been called
    backlog,         \* kernel queue of connections not yet accepted (ids, FIFO)
    nextId,          \* id given to the next arriving connection
    active,          \* connections accepted and being handled
    started,         \* ids in the order their handling started
    done,            \* connections whose handling has ended
    last,            \* <<>>, or <<r>> with r the last response sent
    nFailed,         \* number of not-found responses sent so far
    nResponded,      \* number of requests a status line was sent for
    sigints,         \* number of interrupts delivered so far
    bindFailed,      \* TCPServer(...) raised OSError
    exitCode         \* <<>> while running, else <<status>> of the ended process

vars == <<pc, defaults, extensions_map, stdout, stderr, listening, entered,
          backlog, nextId, active, started, done, last, nFailed, nResponded,
          sigints, bindFailed, exitCode>>

\* ------------------------------------------------------------------ bounds

\* Number of client connections that arrive during one run.
MaxConns == 3

\* --------------------------------------------------------------- constants

PORT == 8080

StartupLine1 == <<"Serving at http://localhost:", PORT>>
StartupLine2 == "Press Ctrl+C to stop"
ShutdownLine == "\nStopped."

\* ------------------------------------------------------------ MIME tables

\* The three entries written in the class body.
OverridesNoMjs ==
    [e \in {".wasm", ".js"} |->
        IF e = ".wasm" THEN "application/wasm" ELSE "application/javascript"]

Overrides ==
    [e \in {".wasm", ".js", ".mjs"} |->
        IF e = ".wasm" THEN "application/wasm" ELSE "application/javascript"]

\* {**base, k: v, ...}: a dict display; later items win over earlier ones.
OverlayOverridesOnly(base, over) == over

OverlayBaseWins(base, over) ==
    [e \in (DOMAIN base) \cup (DOMAIN over) |->
        IF e \in DOMAIN base THEN base[e] ELSE over[e]]

Overlay(base, over) ==
    [e \in (DOMAIN base) \cup (DOMAIN over) |->
        IF e \in DOMAIN over THEN over[e] ELSE base[e]]

\* str.lower() on the extensions the model uses.
lower(e) ==
    CASE e = ".JS"   -> ".js"
      [] e = ".TXT"  -> ".txt"
      [] OTHER       -> e

\* SimpleHTTPRequestHandler.guess_type: exact extension, then lower-cased
\* extension, then the generic binary type.
guess_type(map, ext) ==
    IF ext \in DOMAIN map THEN map[ext]
    ELSE IF lower(ext) \in DOMAIN map THEN map[lower(ext)]
    ELSE "application/octet-stream"

\* ------------------------------------------------------------ environment

\* Platform default tables the run may start with: any table over these keys.
DefaultKeyPool == {".wasm", ".js", ".mjs", ".txt"}
DefaultTypePool == {"text/javascript", "text/plain"}
DefaultTables == UNION {[D -> DefaultTypePool] : D \in SUBSET DefaultKeyPool}

\* What a request path resolves to in the served directory.
Paths ==
    { [name |-> "module",  ext |-> ".wasm", kind |-> "file"],
      [name |-> "app",     ext |-> ".js",   kind |-> "file"],
      [name |-> "lib",     ext |-> ".mjs",  kind |-> "file"],
      [name |-> "readme",  ext |-> ".txt",  kind |-> "file"],
      [name |-> "APP",     ext |-> ".JS",   kind |-> "file"],
      [name |-> "NOTES",   ext |-> ".TXT",  kind |-> "file"],
      [name |-> "data",    ext |-> ".bin",  kind |-> "file"],
      [name |-> "missing", ext |-> ".bin",  kind |-> "missing"],
      [name |-> "secret",  ext |-> ".txt",  kind |-> "denied"],
      [name |-> "docs/",   ext |-> "",      kind |-> "dir"] }

\* ---------------------------------------------------------- request handler

\* SimpleHTTPRequestHandler.send_head for a GET: the status and Content-Type
\* of the response.  A path that cannot be opened (absent or unreadable) is
\* answered send_error(404); a directory without index file is answered with
\* a generated listing.
send_head_open_error_500(map, p) ==
    CASE p.kind = "file" ->
            [status |-> 200, ctype |-> guess_type(map, p.ext)]
      [] p.kind = "dir" ->
            [status |-> 200, ctype |-> "text/html; charset=utf-8"]
      [] OTHER ->
            [status |-> 500, ctype |-> "text/html;charset=utf-8"]

send_head(map, p) ==
    CASE p.kind = "file" ->
            [status |-> 200, ctype |-> guess_type(map, p.ext)]
      [] p.kind = "dir" ->
            [status |-> 200, ctype |-> "text/html; charset=utf-8"]
      [] OTHER ->
            [status |-> 404, ctype |-> "text/html;charset=utf-8"]

\* What the inherited handler writes to standard error for one response:
\* log_request() in send_response(), preceded by log_error() in send_error().
log_message_silenced(status) == <<>>

log_message(status) ==
    IF status >= 400 THEN <<"error-log", "request-log">> ELSE <<"request-log">>

\* A response has a body to stream (copyfile), during which the client may
\* reset the connection and the write raises ConnectionResetError.
HasBody(p) == p.kind \in {"file", "dir"}

\* -------------------------------------------------------------- exceptions

\* try: httpd.serve_forever() / except KeyboardInterrupt: the only statement
\* inside the try block is the serve_forever() call, and the only exception
\* type the except clause names is KeyboardInterrupt.
CaughtAnywhere(stmt, exc) == TRUE

Caught(stmt, exc) == stmt = "serving" /\ exc = "KeyboardInterrupt"

\* socketserver's request loop catches Exception (not BaseException) raised
\* by a handler, reports it through handle_error() and goes on serving.
HandlerErrorEscapes(exc) == FALSE

HandlerErrorContained(exc) == exc # "KeyboardInterrupt"

\* TCPServer handles a request inside process_request(), synchronously: the
\* loop does not return to accept() while a connection is being handled.
LoopBlockedThreading == FALSE

LoopBlocked == active # {}

\* socket.accept() takes the oldest connection of the listen queue.
get_request(q) == Head(q)

Remove(q, c) == SelectSeq(q, LAMBDA x : x # c)

\* Exit statuses of an uncaught exception: the interpreter prints a traceback
\* and exits 1; for KeyboardInterrupt newer interpreters re-deliver SIGINT to
\* themselves (status 130 as seen by a shell).
ErrorStatuses(exc) == IF exc = "KeyboardInterrupt" THEN {1, 130} ELSE {1}

\* An exception raised by the statement at stmt of the module code, after the
\* lines log were written to standard error.  Leaving
\* the with block closes the listening socket (server_close).
RaiseAfter(log, stmt, exc) ==
    IF Caught(stmt, exc)
    THEN /\ pc' = "except"
         /\ stderr' = stderr \o log
         /\ UNCHANGED <<listening, exitCode>>
    ELSE /\ pc' = "exited"
         /\ stderr' = stderr \o log \o <<"traceback">>
         /\ listening' = <<>>
         /\ \E code \in ErrorStatuses(exc) : exitCode' = <<code>>

Raise(stmt, exc) == RaiseAfter(<<>>, stmt, exc)

\* ------------------------------------------------------------------ actions

Init ==
    /\ pc = "classdef"
    /\ defaults \in DefaultTables
    /\ extensions_map = <<>>
    /\ stdout = <<>>
    /\ stderr = <<>>
    /\ listening = <<>>
    /\ entered = FALSE
    /\ backlog = <<>>
    /\ nextId = 1
    /\ active = {}
    /\ started = <<>>
    /\ done = {}
    /\ last = <<>>
    /\ nFailed = 0
    /\ nResponded = 0
    /\ sigints = 0
    /\ bindFailed = FALSE
    /\ exitCode = <<>>

\* class WasmHandler(...): the class body builds extensions_map.
ClassDef ==
    /\ pc = "classdef"
    /\ extensions_map' = Overlay(defaults, Overrides)
    /\ pc' = "print1"
    /\ UNCHANGED <<defaults, stdout, stderr, listening, entered, backlog, nextId,
                   active, started, done, last, nFailed, nResponded, sigints, bindFailed,
                   exitCode>>

\* print(f"Serving at http://localhost:{PORT}")
Print1 ==
    /\ pc = "print1"
    /\ stdout' = Append(stdout, StartupLine1)
    /\ pc' = "print2"
    /\ UNCHANGED <<defaults, extensions_map, stderr, listening, entered, backlog,
                   nextId, active, started, done, last, nFailed, nResponded, sigints,
                   bindFailed, exitCode>>

\* print("Press Ctrl+C to stop")
Print2 ==
    /\ pc = "print2"
    /\ stdout' = Append(stdout, StartupLine2)
    /\ pc' = "bind"
    /\ UNCHANGED <<defaults, extensions_map, stderr, listening, entered, backlog,
                   nextId, active, started, done, last, nFailed, nResponded, sigints,
                   bindFailed, exitCode>>

\* socketserver.TCPServer(("", PORT), WasmHandler): bind and listen, or OSError
\* when the port is in use or may not be bound.
Bind ==
    /\ pc = "bind"
    /\ \E ok \in BOOLEAN :
          IF ok
          THEN /\ listening' = <<PORT>>
               /\ pc' = "bound"
               /\ UNCHANGED <<stderr, exitCode, bindFailed>>
          ELSE /\ bindFailed' = TRUE
               /\ Raise("bind", "OSError")
    /\ UNCHANGED <<defaults, extensions_map, stdout, entered, backlog, nextId,
                   active, started, done, last, nFailed, nResponded, sigints>>

\* with ... as httpd: try: httpd.serve_forever()
ServeForever ==
    /\ pc = "bound"
    /\ pc' = "serving"
    /\ entered' = TRUE
    /\ UNCHANGED <<defaults, extensions_map, stdout, stderr, listening, backlog,
                   nextId, active, started, done, last, nFailed, nResponded, sigints,
                   bindFailed, exitCode>>

\* A client connects; the kernel queues the connection on the listening socket.
Connect ==
    /\ listening # <<>>
    /\ nextId <= MaxConns
    /\ backlog' = Append(backlog, nextId)
    /\ nextId' = nextId + 1
    /\ UNCHANGED <<pc, defaults, extensions_map, stdout, stderr, listening,
                   entered, active, started, done, last, nFailed, nResponded, sigints,
                   bindFailed, exitCode>>

\* serve_forever: select() reports the socket readable, get_request() accepts
\* the connection and process_request() starts handling it.
Accept ==
    /\ pc = "serving"
    /\ ~LoopBlocked
    /\ backlog # <<>>
    /\ LET c == get_request(backlog) IN
          /\ backlog' = Remove(backlog, c)
          /\ active' = active \cup {c}
          /\ started' = Append(started, c)
    /\ UNCHANGED <<pc, defaults, extensions_map, stdout, stderr, listening,
                   entered, nextId, done, last, nFailed, nResponded, sigints, bindFailed,
                   exitCode>>

\* The handler reads the GET request of connection c, for path p, and answers
\* it; reset says the client resets the connection while the body is written.
Handle(c, p, reset) ==
    /\ pc = "serving"
    /\ c \in active
    /\ active' = active \ {c}
    /\ done' = done \cup {c}
    /\ LET r == send_head(extensions_map, p)
           raised == reset /\ HasBody(p)
           log == log_message(r.status)
       IN
          /\ last' = <<[path |-> p, status |-> r.status, ctype |-> r.ctype,
                        complete |-> ~raised]>>
          /\ nResponded' = nResponded + 1
          /\ nFailed' = IF r.status = 404 THEN nFailed + 1 ELSE nFailed
          /\ IF ~raised
             THEN /\ stderr' = stderr \o log
                  /\ UNCHANGED <<pc, listening, exitCode>>
             ELSE IF HandlerErrorContained("ConnectionResetError")
             THEN /\ stderr' = stderr \o log \o <<"handler-traceback">>
                  /\ UNCHANGED <<pc, listening, exitCode>>
             ELSE RaiseAfter(log, "serving", "ConnectionResetError")
    /\ UNCHANGED <<defaults, extensions_map, stdout, entered, backlog, nextId,
                   started, sigints, bindFailed>>

\* The operator's interrupt: KeyboardInterrupt is raised in the main thread at
\* the statement it is executing.  Inside serve_forever a connection being
\* handled is shut down (shutdown_request) before the exception propagates.
Interrupt ==
    /\ pc # "exited"
    /\ sigints' = sigints + 1
    /\ Raise(pc, "KeyboardInterrupt")
    /\ active' = {}
    /\ done' = done \cup active
    /\ UNCHANGED <<defaults, extensions_map, stdout, entered, backlog, nextId,
                   started, last, nFailed, nResponded, bindFailed>>

\* except KeyboardInterrupt: print("\nStopped.")
PrintStopped ==
    /\ pc = "except"
    /\ stdout' = Append(stdout, ShutdownLine)
    /\ pc' = "closing"
    /\ UNCHANGED <<defaults, extensions_map, stderr, listening, entered, backlog,
                   nextId, active, started, done, last, nFailed, nResponded, sigints,
                   bindFailed, exitCode>>

\* End of the with block (server_close) and of the module: exit status 0.
Exit ==
    /\ pc = "closing"
    /\ listening' = <<>>
    /\ exitCode' = <<0>>
    /\ pc' = "exited"
    /\ UNCHANGED <<defaults, extensions_map, stdout, stderr, entered, backlog,
                   nextId, active, started, done, last, nFailed, nResponded, sigints,
                   bindFailed>>

Next ==
    \/ ClassDef
    \/ Print1
    \/ Print2
    \/ Bind
    \/ ServeForever
    \/ Connect
    \/ Accept
    \/ \E c \in active, p \in Paths, reset \in BOOLEAN : Handle(c, p, reset)
    \/ Interrupt
    \/ PrintStopped
    \/ Exit

Spec == Init /\ [][Next]_vars

\* ------------------------------------------------------------------ claims

Range(f) == {f[i] : i \in DOMAIN f}

Count(seq, tag) == Cardinality({i \in DOMAIN seq : seq[i] = tag})

IsPrefix(s, t) == Len(s) <= Len(t) /\ \A i \in 1..Len(s) : s[i] = t[i]

\* The override table of the interface contract.
ContractType(ext) ==
    CASE ext = ".wasm" -> "application/wasm"
      [] ext = ".js"   -> "application/javascript"
      [] ext = ".mjs"  -> "application/javascript"

C2_InterruptExitsCleanly ==
    (sigints > 0 /\ pc = "exited")
        => (exitCode = <<0>> /\ ShutdownLine \in Range(stdout))

C4_OnlyInterruptStopsServing ==
    [][/\ pc = "serving" => listening = <<PORT>>
       /\ (pc = "serving" /\ pc' # "serving") => sigints' = sigints + 1]_vars

\* C4 witness: still serving, uninterrupted, after a not-found response and a
\* request whose handler raised.
C4_Witness ==
    /\ pc = "serving"
    /\ sigints = 0
    /\ nFailed > 0
    /\ "handler-traceback" \in Range(stderr)

\* C5: lifecycle order: table constructed, port bound, startup message
\* printed, serve loop entered, shutdown message printed, exit.
C5_LifecycleOrder ==
    /\ listening # <<>> => extensions_map # <<>>
    /\ (stdout # <<>> /\ pc # "exited") => listening = <<PORT>>
    /\ entered => Len(stdout) >= 2
    /\ ShutdownLine \in Range(stdout) => entered
    /\ exitCode = <<0>> => ShutdownLine \in Range(stdout)

C7_OneAtATimeFifo ==
    /\ Cardinality(active) <= 1
    /\ \A i \in DOMAIN started : started[i] = i
    /\ \A c \in active : \A d \in 1..(c - 1) : d \in done

\* C7 witness: a connection is being handled after an earlier one ended,
\* while a later one waits in the listen queue.
C7_Witness ==
    /\ active = {2}
    /\ 1 \in done
    /\ backlog = <<3>>

\* C8: once constructed the table is the platform default table overlaid by
\* the three overrides (the override winning on common keys), and no step
\* changes it.
IsOverlay ==
    /\ DOMAIN extensions_map = (DOMAIN defaults) \cup {".wasm", ".js", ".mjs"}
    /\ \A k \in DOMAIN extensions_map :
          extensions_map[k] =
              IF k \in {".wasm", ".js", ".mjs"} THEN ContractType(k) ELSE defaults[k]

C8_TableImmutable ==
    /\ [](pc \in {"print1", "print2", "bind", "bound", "serving", "except", "closing"}
            => IsOverlay)
    /\ [][extensions_map # <<>> => extensions_map' = extensions_map]_vars

\* C8 witness: requests were answered from a table whose platform default
\* disagrees with an override on a common key.
C8_Witness ==
    /\ nResponded >= 2
    /\ ".wasm" \in DOMAIN defaults
    /\ extensions_map[".wasm"] # defaults[".wasm"]

\* The answer of the platform's unmodified handler for an extension.
PlatformType(ext) == guess_type(defaults, ext)

C10_BindFailureFatal ==
    bindFailed =>
        /\ pc = "exited"
        /\ exitCode = <<1>>
        /\ ~entered
        /\ started = <<>> /\ last = <<>> /\ nResponded = 0
        /\ stdout = <<StartupLine1, StartupLine2>>
        /\ stderr = <<"traceback">>

\* C10 witness: the bind failed.
C10_Witness == bindFailed /\ pc = "exited" /\ listening = <<>>

====
